---- MODULE Spec2Model ----
(***************************************************************************)
(* ldap_attr: reconciliation of the values of one attribute of one         *)
(* existing LDAP entry (playbooks/library/database/ldap/ldap_attr.py).     *)
(*                                                                         *)
(* The model has two parts.  The directory server holds the entry and the  *)
(* attribute; every request (compare, search, modify) is one atomic step   *)
(* at the server.  An invocation of the module is a process that walks     *)
(* through main(): it parses its parameters, plans with compare/search     *)
(* requests, sends at most one modify request and reports.                 *)
(*                                                                         *)
(* Python objects are encoded as strings: a str object is the string       *)
(* itself, a unicode object is one of UnicodeObjs, anything else is one of *)
(* NonStrObjs.  A list is a sequence.  None is the string None.            *)
(***************************************************************************)
EXTENDS Naturals, Sequences, FiniteSets, TLC

\* Longest list of values passed in the values parameter.
MaxLen == 2

\* Longest list of values passed to each of two concurrent invocations.
MaxConcLen == 1

\* The invocations (one process each).
Inv == {1, 2}

\* The invocations that run under Spec: one at a time.
Solo == {1}

\* Byte strings the attribute can hold.
Values == {"a", "A", "b"}

None == "None"

StrObjs == Values \cup {""}

UnicodeObjs == {"u'b'"}

NonStrObjs == {"int 389"}

Range(s) == {s[i] : i \in DOMAIN s}

ListsOf(S, n) == UNION {[1..k -> S] : k \in 0..n}

Perms(S) == {s \in [1..Cardinality(S) -> S] : Range(s) = S}

(***************************************************************************)
(* Parameter parsing                                                       *)
(***************************************************************************)

Scalar(o) == [islist |-> FALSE, obj |-> o, items |-> <<>>]

List(l) == [islist |-> TRUE, obj |-> None, items |-> l]

\* unicode.encode('utf-8')
encode_utf8(u) == CASE u = "u'b'" -> "b"

isinstance_basestring(o) == o \in StrObjs \cup UnicodeObjs

_force_utf8(value) == IF value \in UnicodeObjs THEN encode_utf8(value) ELSE value

\* Mutant: the type check of the values parameter is missing.
Mut_normalized_values_nocheck(param) ==
    LET values == IF ~param.islist
                  THEN IF param.obj = "" THEN List(<<>>) ELSE List(<<param.obj>>)
                  ELSE param
    IN  [failed |-> FALSE,
         values |-> [i \in 1..Len(values.items) |-> _force_utf8(values.items[i])]]

\* failed: fail_json was called (the process exits); values: the list returned.
_normalized_values(param) ==
    LET values == IF ~param.islist /\ isinstance_basestring(param.obj)
                  THEN IF param.obj = "" THEN List(<<>>) ELSE List(<<param.obj>>)
                  ELSE param
    IN  IF ~(values.islist
             /\ \A i \in 1..Len(values.items) : isinstance_basestring(values.items[i]))
        THEN [failed |-> TRUE, values |-> <<>>]
        ELSE [failed |-> FALSE,
              values |-> [i \in 1..Len(values.items) |-> _force_utf8(values.items[i])]]

\* The values parameter as the caller may pass it.
ParamValues ==
    {Scalar(o) : o \in StrObjs \cup UnicodeObjs \cup NonStrObjs}
    \cup {List(l) : l \in ListsOf(Values, MaxLen)}
    \cup {List(<<"u'b'">>), List(<<"a", "int 389">>)}

BindChoices ==
    { [bind_dn |-> None, bind_pw |-> ""],
      [bind_dn |-> "", bind_pw |-> ""],
      [bind_dn |-> "cn=admin", bind_pw |-> "secret"] }

\* module.params and module.check_mode
Params ==
    { [values |-> v, state |-> s, check_mode |-> c, start_tls |-> t,
       bind_dn |-> b.bind_dn, bind_pw |-> b.bind_pw] :
      v \in ParamValues, s \in {"present", "absent", "exact"},
      c \in BOOLEAN, t \in BOOLEAN, b \in BindChoices }

NoParams ==
    [values |-> Scalar(""), state |-> "present", check_mode |-> FALSE,
     start_tls |-> FALSE, bind_dn |-> None, bind_pw |-> ""]

VARIABLES
    entryExists,   \* server: the entry dn exists
    matching,      \* server: equality matching rule of the attribute
    attr,          \* server: the values of attribute name on entry dn
    pc,            \* invocation: where it stands
    params,        \* invocation: module.params, module.check_mode
    values,        \* invocation: self.values
    connection,    \* invocation: self._connection
    idx,           \* invocation: position of filter() in self.values
    kept,          \* invocation: the values filter() has kept so far
    current,       \* invocation: current_values() as fetched
    modlist,       \* invocation: modlist of main()
    changed,       \* invocation: changed of main()
    error,         \* invocation: what fail_json reported
    calls,         \* invocation: the directory calls issued, in order
    attr0,         \* history: attr when the invocation started
    prev,          \* history: the invocation this one repeats
    writes         \* history: the modify requests of the live invocations that
                   \* the server applied, in the order it applied them

server == <<entryExists, matching, attr>>

local == <<pc, params, values, connection, idx, kept, current, modlist, changed,
           error, calls, attr0, prev>>

vars == <<entryExists, matching, attr, pc, params, values, connection, idx, kept,
          current, modlist, changed, error, calls, attr0, prev, writes>>

(***************************************************************************)
(* The directory server, as python-ldap's synchronous calls see it.  A     *)
(* call returns a result or raises the LDAPError named by its result code. *)
(***************************************************************************)

\* The attribute's equality matching rule, applied by the server.
Norm(v) == IF matching = "caseIgnoreMatch" /\ v = "A" THEN "a" ELSE v

NormSet(S) == {Norm(v) : v \in S}

HasDup(vals) == \E i, j \in 1..Len(vals) : i # j /\ Norm(vals[i]) = Norm(vals[j])

\* The states the server can be in: an attribute holds no value twice.
ServerAttrs(exists, rule) ==
    IF ~exists THEN {{}}
    ELSE {S \in SUBSET Values : rule = "caseIgnoreMatch" => ~({"a", "A"} \subseteq S)}

\* connection.compare_s(dn, name, value)
compare_s(value) ==
    IF ~entryExists THEN "NO_SUCH_OBJECT"
    ELSE IF attr = {} THEN "NO_SUCH_ATTRIBUTE"
    ELSE IF Norm(value) \in NormSet(attr) THEN "COMPARE_TRUE"
    ELSE "COMPARE_FALSE"

\* connection.search_s(dn, SCOPE_BASE, attrlist=[name]): the lists
\* results[0][1].get(name, []) can be, or the error raised.
search_s ==
    IF ~entryExists THEN [err |-> "NO_SUCH_OBJECT", lists |-> {}]
    ELSE [err |-> "", lists |-> Perms(attr)]

\* One modification of a modify request applied to the attribute values a.
\* MOD_DELETE with no values (None) deletes the whole attribute.
ApplyMod(a, mod) ==
    CASE mod.op = "MOD_ADD" ->
           IF mod.vals = <<>> THEN [err |-> "PROTOCOL_ERROR", attr |-> a]
           ELSE IF HasDup(mod.vals) \/ NormSet(Range(mod.vals)) \cap NormSet(a) # {}
           THEN [err |-> "TYPE_OR_VALUE_EXISTS", attr |-> a]
           ELSE [err |-> "", attr |-> a \cup Range(mod.vals)]
      [] mod.op = "MOD_DELETE" ->
           IF mod.vals = <<>>
           THEN IF a = {} THEN [err |-> "NO_SUCH_ATTRIBUTE", attr |-> a]
                ELSE [err |-> "", attr |-> {}]
           ELSE IF HasDup(mod.vals) \/ ~(NormSet(Range(mod.vals)) \subseteq NormSet(a))
           THEN [err |-> "NO_SUCH_ATTRIBUTE", attr |-> a]
           ELSE [err |-> "",
                 attr |-> {w \in a : Norm(w) \notin NormSet(Range(mod.vals))}]
      [] mod.op = "MOD_REPLACE" ->
           IF HasDup(mod.vals) THEN [err |-> "TYPE_OR_VALUE_EXISTS", attr |-> a]
           ELSE [err |-> "", attr |-> Range(mod.vals)]

RECURSIVE ApplyMods(_, _)
ApplyMods(a, mods) ==
    IF mods = <<>> THEN [err |-> "", attr |-> a]
    ELSE LET r == ApplyMod(a, Head(mods))
         IN  IF r.err # "" THEN r ELSE ApplyMods(r.attr, Tail(mods))

\* connection.modify_s(dn, modlist): all modifications or none.
modify_s(mods) ==
    IF ~entryExists THEN [err |-> "NO_SUCH_OBJECT", attr |-> attr]
    ELSE LET r == ApplyMods(attr, mods)
         IN  IF r.err # "" THEN [err |-> r.err, attr |-> attr] ELSE r

\* The errors a call can raise whatever the request: the server is gone, or
\* it refuses the bound identity the operation.
Faults == {"", "SERVER_DOWN", "INSUFFICIENT_ACCESS"}

(***************************************************************************)
(* One invocation of the module                                            *)
(***************************************************************************)

\* An entry of calls: the call, its value arguments, its modlist, and what it
\* returned: OK, the answer of a compare, or the LDAPError it raised.
Call(name, vals, mods) == [call |-> name, vals |-> vals, mods |-> mods, res |-> "OK"]

Returned(c, res) == [c EXCEPT !.res = res]

LDAPErrors ==
    {"SERVER_DOWN", "CONNECT_ERROR", "INVALID_CREDENTIALS", "INSUFFICIENT_ACCESS",
     "NO_SUCH_OBJECT", "NO_SUCH_ATTRIBUTE", "TYPE_OR_VALUE_EXISTS", "PROTOCOL_ERROR"}

NoPrev ==
    [valid |-> FALSE, check_mode |-> FALSE, changed |-> FALSE, modlist |-> <<>>,
     attr0 |-> {}]

ConnectError(failAt) ==
    CASE failAt = "initialize"  -> "SERVER_DOWN"
      [] failAt = "start_tls_s" -> "CONNECT_ERROR"
      [] failAt = "bind"        -> "INVALID_CREDENTIALS"
      [] OTHER                  -> "OK"

\* The last call of a sequence of calls raised err (OK: it returned).
LastReturned(cs, err) == [cs EXCEPT ![Len(cs)] = Returned(@, err)]

\* Mutant: "if self.bind_dn:" instead of "if self.bind_dn is not None:".
Mut_connect_to_ldap_truthy(start_tls, bind_dn, bind_pw, failAt) ==
    LET init == <<Call("initialize", <<>>, <<>>)>>
        tls  == IF start_tls THEN <<Call("start_tls_s", <<>>, <<>>)>> ELSE <<>>
        bind == IF bind_dn # None /\ bind_dn # ""
                THEN <<Call("simple_bind_s", <<bind_dn, bind_pw>>, <<>>)>>
                ELSE <<Call("sasl_interactive_bind_s", <<"", "EXTERNAL">>, <<>>)>>
    IN  CASE failAt = "initialize"  -> LastReturned(init, ConnectError(failAt))
          [] failAt = "start_tls_s" -> LastReturned(init \o tls, ConnectError(failAt))
          [] OTHER                  -> LastReturned(init \o tls \o bind, ConnectError(failAt))

\* Mutant: the bind is made before start_tls_s.
Mut_connect_to_ldap_bind_first(start_tls, bind_dn, bind_pw, failAt) ==
    LET init == <<Call("initialize", <<>>, <<>>)>>
        tls  == IF start_tls THEN <<Call("start_tls_s", <<>>, <<>>)>> ELSE <<>>
        bind == IF bind_dn # None
                THEN <<Call("simple_bind_s", <<bind_dn, bind_pw>>, <<>>)>>
                ELSE <<Call("sasl_interactive_bind_s", <<"", "EXTERNAL">>, <<>>)>>
    IN  CASE failAt = "initialize"  -> LastReturned(init, ConnectError(failAt))
          [] failAt = "bind"        -> LastReturned(init \o bind, ConnectError(failAt))
          [] OTHER                  -> LastReturned(init \o bind \o tls, ConnectError(failAt))

\* The calls _connect_to_ldap issues when the call failAt raises ("" = none).
_connect_to_ldap(start_tls, bind_dn, bind_pw, failAt) ==
    LET init == <<Call("initialize", <<>>, <<>>)>>
        tls  == IF start_tls THEN <<Call("start_tls_s", <<>>, <<>>)>> ELSE <<>>
        bind == IF bind_dn # None
                THEN <<Call("simple_bind_s", <<bind_dn, bind_pw>>, <<>>)>>
                ELSE <<Call("sasl_interactive_bind_s", <<"", "EXTERNAL">>, <<>>)>>
    IN  CASE failAt = "initialize"  -> LastReturned(init, ConnectError(failAt))
          [] failAt = "start_tls_s" -> LastReturned(init \o tls, ConnectError(failAt))
          [] OTHER                  -> LastReturned(init \o tls \o bind, ConnectError(failAt))

\* Mutant: except ldap.LDAPError instead of except ldap.NO_SUCH_ATTRIBUTE.
Mut_is_value_present_catchall(res) ==
    IF res = "COMPARE_TRUE" THEN [raised |-> FALSE, is_present |-> TRUE]
    ELSE [raised |-> FALSE, is_present |-> FALSE]

\* Mutant: no except clause, NO_SUCH_ATTRIBUTE leaves the function.
Mut_is_value_present_noexcept(res) ==
    CASE res = "COMPARE_TRUE"  -> [raised |-> FALSE, is_present |-> TRUE]
      [] res = "COMPARE_FALSE" -> [raised |-> FALSE, is_present |-> FALSE]
      [] OTHER                 -> [raised |-> TRUE, is_present |-> FALSE]

\* is_value_present: res is what compare_s returned or raised.
\* raised: the exception leaves the function.
is_value_present(res) ==
    CASE res = "COMPARE_TRUE"      -> [raised |-> FALSE, is_present |-> TRUE]
      [] res = "COMPARE_FALSE"     -> [raised |-> FALSE, is_present |-> FALSE]
      [] res = "NO_SUCH_ATTRIBUTE" -> [raised |-> FALSE, is_present |-> FALSE]
      [] OTHER                     -> [raised |-> TRUE, is_present |-> FALSE]

\* Mutant: the negation is lost, every value counts as absent.
Mut_is_value_absent_always(is_present) == TRUE

\* Mutant: the negation is lost, the values present count as absent.
Mut_is_value_absent_identity(is_present) == is_present

is_value_absent(is_present) == ~is_present

\* Mutant: MOD_REPLACE instead of MOD_ADD.
Mut_handle_present_replace(values_to_add) ==
    IF Len(values_to_add) > 0
    THEN <<[op |-> "MOD_REPLACE", vals |-> values_to_add]>>
    ELSE <<>>

handle_present(values_to_add) ==
    IF Len(values_to_add) > 0
    THEN <<[op |-> "MOD_ADD", vals |-> values_to_add]>>
    ELSE <<>>

\* Mutant: the value list is dropped, the whole attribute is deleted.
Mut_handle_absent_all(values_to_delete) ==
    IF Len(values_to_delete) > 0
    THEN <<[op |-> "MOD_DELETE", vals |-> <<>>]>>
    ELSE <<>>

handle_absent(values_to_delete) ==
    IF Len(values_to_delete) > 0
    THEN <<[op |-> "MOD_DELETE", vals |-> values_to_delete]>>
    ELSE <<>>

\* Mutant: the lengths are compared instead of the sets.
Mut_handle_exact_len(vals, cur) ==
    IF Len(vals) # Len(cur)
    THEN IF Len(cur) = 0 THEN <<[op |-> "MOD_ADD", vals |-> vals]>>
         ELSE IF Len(vals) = 0 THEN <<[op |-> "MOD_DELETE", vals |-> <<>>]>>
         ELSE <<[op |-> "MOD_REPLACE", vals |-> vals]>>
    ELSE <<>>

\* Mutant: the lists are compared instead of the sets.
Mut_handle_exact_list(vals, cur) ==
    IF vals # cur
    THEN IF Len(cur) = 0 THEN <<[op |-> "MOD_ADD", vals |-> vals]>>
         ELSE IF Len(vals) = 0 THEN <<[op |-> "MOD_DELETE", vals |-> <<>>]>>
         ELSE <<[op |-> "MOD_REPLACE", vals |-> vals]>>
    ELSE <<>>

\* Mutant: a replace is sent as two modifications, delete then add.
Mut_handle_exact_two_ops(vals, cur) ==
    IF Range(vals) # Range(cur)
    THEN IF Len(cur) = 0 THEN <<[op |-> "MOD_ADD", vals |-> vals]>>
         ELSE IF Len(vals) = 0 THEN <<[op |-> "MOD_DELETE", vals |-> <<>>]>>
         ELSE <<[op |-> "MOD_DELETE", vals |-> <<>>], [op |-> "MOD_ADD", vals |-> vals]>>
    ELSE <<>>

\* frozenset(self.values) != frozenset(current) compares byte strings.
handle_exact(vals, cur) ==
    IF Range(vals) # Range(cur)
    THEN IF Len(cur) = 0 THEN <<[op |-> "MOD_ADD", vals |-> vals]>>
         ELSE IF Len(vals) = 0 THEN <<[op |-> "MOD_DELETE", vals |-> <<>>]>>
         ELSE <<[op |-> "MOD_REPLACE", vals |-> vals]>>
    ELSE <<>>

main_changed(ml) == Len(ml) > 0

\* Mutant: check mode does not gate the modify_s call.
Mut_main_applies_unchecked(ml, check_mode) == Len(ml) > 0

\* main() calls modify_s
main_applies(ml, check_mode) == Len(ml) > 0 /\ ~check_mode

\* except ldap.LDAPError: module.fail_json
Raise(p, err) ==
    /\ pc' = [pc EXCEPT ![p] = "fail"]
    /\ error' = [error EXCEPT ![p] = err]

\* Mutant: changed is reported only when the modlist is sent.
Mut_MainTail_changed_if_sent(p, ml) ==
    /\ modlist' = [modlist EXCEPT ![p] = ml]
    /\ changed' = [changed EXCEPT ![p] = Len(ml) > 0 /\ ~params[p].check_mode]
    /\ pc' = [pc EXCEPT ![p] =
                IF Len(ml) > 0 /\ ~params[p].check_mode THEN "modify" ELSE "exit"]

\* main() from the handler's return to exit_json, or to the modify_s call.
MainTail(p, ml) ==
    /\ modlist' = [modlist EXCEPT ![p] = ml]
    /\ changed' = [changed EXCEPT ![p] = main_changed(ml)]
    /\ pc' = [pc EXCEPT ![p] =
                IF main_applies(ml, params[p].check_mode) THEN "modify" ELSE "exit"]

\* The applied requests of the invocations other than p.
WritesOfOthers(p) == SelectSeq(writes, LAMBDA w : w.inv # p)

\* A new process: AnsibleModule(...), LdapAttr(module), LdapAttr.main's dispatch.
Start(p, par, pv) ==
    LET nv == _normalized_values(par.values)
    IN  /\ params' = [params EXCEPT ![p] = par]
        /\ values' = [values EXCEPT ![p] = nv.values]
        /\ pc' = [pc EXCEPT ![p] = IF nv.failed THEN "fail" ELSE par.state]
        /\ error' = [error EXCEPT ![p] = IF nv.failed THEN "InvalidInput" ELSE ""]
        /\ connection' = [connection EXCEPT ![p] = None]
        /\ idx' = [idx EXCEPT ![p] = 1]
        /\ kept' = [kept EXCEPT ![p] = <<>>]
        /\ current' = [current EXCEPT ![p] = <<>>]
        /\ modlist' = [modlist EXCEPT ![p] = <<>>]
        /\ changed' = [changed EXCEPT ![p] = FALSE]
        /\ calls' = [calls EXCEPT ![p] = <<>>]
        /\ attr0' = [attr0 EXCEPT ![p] = attr]
        /\ prev' = [prev EXCEPT ![p] = pv]
        /\ writes' = WritesOfOthers(p)
        /\ UNCHANGED server

Invoke(p) ==
    /\ pc[p] = "idle"
    /\ \E par \in Params : Start(p, par, NoPrev)

\* The same task run again after a successful run, with or without check mode.
Reinvoke(p) ==
    /\ pc[p] = "exit"
    /\ \E c \in BOOLEAN :
          Start(p, [params[p] EXCEPT !.check_mode = c],
                [valid |-> TRUE, check_mode |-> params[p].check_mode,
                 changed |-> changed[p], modlist |-> modlist[p],
                 attr0 |-> attr0[p]])

\* Mutant: the connection is opened whether or not a directory call follows.
Mut_NeedsConnection_eager(p) == pc[p] \in {"present", "absent", "exact", "modify"}

\* A directory call is next.
NeedsConnection(p) ==
    \/ pc[p] \in {"present", "absent"} /\ idx[p] <= Len(values[p])
    \/ pc[p] = "exact"
    \/ pc[p] = "modify"

\* The connection property, on first use.
ConnectToLdap(p) ==
    /\ NeedsConnection(p)
    /\ connection[p] = None
    /\ \E failAt \in {"", "initialize", "bind"}
                     \cup (IF params[p].start_tls THEN {"start_tls_s"} ELSE {}) :
          /\ calls' = [calls EXCEPT ![p] =
                         @ \o _connect_to_ldap(params[p].start_tls, params[p].bind_dn,
                                               params[p].bind_pw, failAt)]
          /\ IF failAt = ""
             THEN /\ connection' = [connection EXCEPT ![p] = "bound"]
                  /\ UNCHANGED <<pc, error>>
             ELSE /\ Raise(p, ConnectError(failAt))
                  /\ UNCHANGED connection
    /\ UNCHANGED <<server, writes, params, values, idx, kept, current, modlist, changed,
                   attr0, prev>>

\* One call of the filter() predicate in handle_present / handle_absent.
IsValuePresent(p) ==
    /\ pc[p] \in {"present", "absent"}
    /\ idx[p] <= Len(values[p])
    /\ connection[p] # None
    /\ \E fault \in Faults :
          LET value == values[p][idx[p]]
              res   == IF fault # "" THEN fault ELSE compare_s(value)
              r     == is_value_present(res)
              keep  == IF pc[p] = "present" THEN is_value_absent(r.is_present)
                       ELSE r.is_present
          IN  /\ calls' = [calls EXCEPT ![p] =
                             Append(@, Returned(Call("compare_s", <<value>>, <<>>), res))]
              /\ IF r.raised
                 THEN /\ Raise(p, res)
                      /\ UNCHANGED <<idx, kept>>
                 ELSE /\ idx' = [idx EXCEPT ![p] = @ + 1]
                      /\ kept' = [kept EXCEPT ![p] = IF keep THEN Append(@, value) ELSE @]
                      /\ UNCHANGED <<pc, error>>
    /\ UNCHANGED <<server, writes, params, values, connection, current, modlist, changed,
                   attr0, prev>>

HandlePresent(p) ==
    /\ pc[p] = "present"
    /\ idx[p] > Len(values[p])
    /\ MainTail(p, handle_present(kept[p]))
    /\ UNCHANGED <<server, writes, params, values, connection, idx, kept, current, error,
                   calls, attr0, prev>>

HandleAbsent(p) ==
    /\ pc[p] = "absent"
    /\ idx[p] > Len(values[p])
    /\ MainTail(p, handle_absent(kept[p]))
    /\ UNCHANGED <<server, writes, params, values, connection, idx, kept, current, error,
                   calls, attr0, prev>>

HandleExact(p) ==
    /\ pc[p] = "exact"
    /\ connection[p] # None
    /\ \E fault \in Faults :
          LET res == IF fault # "" THEN [err |-> fault, lists |-> {}] ELSE search_s
          IN  IF res.err # ""
              THEN /\ calls' = [calls EXCEPT ![p] =
                                  Append(@, Returned(Call("search_s", <<>>, <<>>), res.err))]
                   /\ Raise(p, res.err)
                   /\ UNCHANGED <<current, modlist, changed>>
              ELSE \E cur \in res.lists :
                      /\ calls' = [calls EXCEPT ![p] =
                                     Append(@, Call("search_s", <<>>, <<>>))]
                      /\ current' = [current EXCEPT ![p] = cur]
                      /\ MainTail(p, handle_exact(values[p], cur))
                      /\ UNCHANGED error
    /\ UNCHANGED <<server, writes, params, values, connection, idx, kept, attr0, prev>>

\* Mutant: the connection is dropped once the modify request was sent.
Mut_Modify_unbinds(p) ==
    /\ pc[p] = "modify"
    /\ connection[p] # None
    /\ connection' = [connection EXCEPT ![p] = None]
    /\ \E fault \in Faults :
          LET res == IF fault # "" THEN [err |-> fault, attr |-> attr]
                     ELSE modify_s(modlist[p])
          IN  IF res.err # ""
              THEN /\ calls' = [calls EXCEPT ![p] =
                                  Append(@, Returned(Call("modify_s", <<>>, modlist[p]),
                                                     res.err))]
                   /\ Raise(p, res.err)
                   /\ UNCHANGED <<attr, writes>>
              ELSE /\ calls' = [calls EXCEPT ![p] =
                                  Append(@, Call("modify_s", <<>>, modlist[p]))]
                   /\ attr' = res.attr
                   /\ writes' = Append(writes, [inv |-> p, mods |-> modlist[p],
                                                before |-> attr])
                   /\ pc' = [pc EXCEPT ![p] = "exit"]
                   /\ UNCHANGED error
    /\ UNCHANGED <<entryExists, matching, params, values, idx, kept,
                   current, modlist, changed, attr0, prev>>

\* self.connection.modify_s(self.dn, modlist), then exit_json
Modify(p) ==
    /\ pc[p] = "modify"
    /\ connection[p] # None
    /\ \E fault \in Faults :
          LET res == IF fault # "" THEN [err |-> fault, attr |-> attr]
                     ELSE modify_s(modlist[p])
          IN  IF res.err # ""
              THEN /\ calls' = [calls EXCEPT ![p] =
                                  Append(@, Returned(Call("modify_s", <<>>, modlist[p]),
                                                     res.err))]
                   /\ Raise(p, res.err)
                   /\ UNCHANGED <<attr, writes>>
              ELSE /\ calls' = [calls EXCEPT ![p] =
                                  Append(@, Call("modify_s", <<>>, modlist[p]))]
                   /\ attr' = res.attr
                   /\ writes' = Append(writes, [inv |-> p, mods |-> modlist[p],
                                                before |-> attr])
                   /\ pc' = [pc EXCEPT ![p] = "exit"]
                   /\ UNCHANGED error
    /\ UNCHANGED <<entryExists, matching, params, values, connection, idx, kept,
                   current, modlist, changed, attr0, prev>>

\* The process is gone, and its socket with it; the module sends no unbind.
End(p) ==
    /\ pc[p] \in {"exit", "fail"}
    /\ pc' = [pc EXCEPT ![p] = "idle"]
    /\ params' = [params EXCEPT ![p] = NoParams]
    /\ values' = [values EXCEPT ![p] = <<>>]
    /\ connection' = [connection EXCEPT ![p] = None]
    /\ idx' = [idx EXCEPT ![p] = 1]
    /\ kept' = [kept EXCEPT ![p] = <<>>]
    /\ current' = [current EXCEPT ![p] = <<>>]
    /\ modlist' = [modlist EXCEPT ![p] = <<>>]
    /\ changed' = [changed EXCEPT ![p] = FALSE]
    /\ error' = [error EXCEPT ![p] = ""]
    /\ calls' = [calls EXCEPT ![p] = <<>>]
    /\ attr0' = [attr0 EXCEPT ![p] = {}]
    /\ prev' = [prev EXCEPT ![p] = NoPrev]
    /\ writes' = WritesOfOthers(p)
    /\ UNCHANGED server

Init ==
    /\ entryExists \in BOOLEAN
    /\ matching \in {"octetStringMatch", "caseIgnoreMatch"}
    /\ attr \in ServerAttrs(entryExists, matching)
    /\ pc = [p \in Inv |-> "idle"]
    /\ params = [p \in Inv |-> NoParams]
    /\ values = [p \in Inv |-> <<>>]
    /\ connection = [p \in Inv |-> None]
    /\ idx = [p \in Inv |-> 1]
    /\ kept = [p \in Inv |-> <<>>]
    /\ current = [p \in Inv |-> <<>>]
    /\ modlist = [p \in Inv |-> <<>>]
    /\ changed = [p \in Inv |-> FALSE]
    /\ error = [p \in Inv |-> ""]
    /\ calls = [p \in Inv |-> <<>>]
    /\ attr0 = [p \in Inv |-> {}]
    /\ prev = [p \in Inv |-> NoPrev]
    /\ writes = <<>>

Next ==
    \E p \in Solo :
        \/ Invoke(p)
        \/ Reinvoke(p)
        \/ ConnectToLdap(p)
        \/ IsValuePresent(p)
        \/ HandlePresent(p)
        \/ HandleAbsent(p)
        \/ HandleExact(p)
        \/ Modify(p)
        \/ End(p)

Spec == Init /\ [][Next]_vars

(***************************************************************************)
(* Two invocations at once, against the same entry and attribute.  Each     *)
(* runs once; their directory calls interleave in any order, each call one  *)
(* atomic step at the server.                                               *)
(***************************************************************************)

\* The parameters of the concurrent invocations: valid lists of values, no
\* check mode, the default connection settings.
ConcParams ==
    { [values |-> List(l), state |-> s, check_mode |-> FALSE, start_tls |-> FALSE,
       bind_dn |-> None, bind_pw |-> ""] :
      l \in ListsOf(Values, MaxConcLen), s \in {"present", "absent", "exact"} }

InvokeConc(p) ==
    /\ pc[p] = "idle"
    /\ \E par \in ConcParams : Start(p, par, NoPrev)

NextConc ==
    \E p \in Inv :
        \/ InvokeConc(p)
        \/ ConnectToLdap(p)
        \/ IsValuePresent(p)
        \/ HandlePresent(p)
        \/ HandleAbsent(p)
        \/ HandleExact(p)
        \/ Modify(p)

SpecConc == Init /\ [][NextConc]_vars

(***************************************************************************)
(* Properties                                                              *)
(***************************************************************************)

State(p) == params[p].state

CheckMode(p) == params[p].check_mode

\* The calls of one kind an invocation has issued, in order.
CallsOf(p, name) == SelectSeq(calls[p], LAMBDA c : c.call = name)

\* The values an invocation has asked the server to compare, in order.
Compared(p) == [i \in 1..Len(CallsOf(p, "compare_s")) |-> CallsOf(p, "compare_s")[i].vals[1]]

\* The server holds value v, as the server compares.
ServerHas(v) == Norm(v) \in NormSet(attr)

\* C1: an invocation in check mode never sends a modify request, whatever the
\* mode, the desired values and the attribute's state, so the attribute's
\* values stay what they were when it started; the reads that plan the change
\* are still made (a search in exact mode, one compare per desired value in
\* present and absent mode).
C1_CheckModeNeverModifies ==
    \A p \in Solo :
        pc[p] # "idle" /\ CheckMode(p) =>
            /\ CallsOf(p, "modify_s") = <<>>
            /\ pc[p] # "modify"
            /\ attr = attr0[p]
            /\ pc[p] = "exit" /\ State(p) = "exact" => Len(CallsOf(p, "search_s")) = 1
            /\ pc[p] = "exit" /\ State(p) \in {"present", "absent"} =>
                   Compared(p) = values[p]

\* A check-mode invocation has reported a change it did not make.
C1_Witness ==
    \E p \in Solo :
        /\ pc[p] = "exit" /\ CheckMode(p)
        /\ changed[p] /\ modlist[p] # <<>>
        /\ calls[p] # <<>>

\* C2: in present and absent mode, an invocation that repeats, with the same
\* inputs, one that planned and applied successfully plans nothing, reports
\* changed=false and sends no modify request.
C2_Idempotent ==
    \A p \in Solo :
        /\ prev[p].valid /\ ~prev[p].check_mode
        /\ State(p) \in {"present", "absent"}
        => /\ CallsOf(p, "modify_s") = <<>>
           /\ pc[p] # "modify"
           /\ pc[p] = "exit" => modlist[p] = <<>> /\ ~changed[p]

\* The repetition of an invocation that changed the attribute has reported.
C2_Witness ==
    \E p \in Solo :
        /\ pc[p] = "exit" /\ State(p) \in {"present", "absent"}
        /\ prev[p].valid /\ ~prev[p].check_mode /\ prev[p].changed
        /\ values[p] # <<>>

\* C3: after an exact-mode invocation outside check mode has completed
\* without error, the set of the attribute's values on the server is the set
\* of the desired values; with no desired values the attribute has none.
C3_ExactCorrect ==
    \A p \in Solo :
        pc[p] = "exit" /\ State(p) = "exact" /\ ~CheckMode(p) =>
            attr = Range(values[p])

\* An exact-mode invocation has replaced the values of the attribute.
C3_Witness ==
    \E p \in Solo :
        /\ pc[p] = "exit" /\ State(p) = "exact" /\ ~CheckMode(p)
        /\ changed[p] /\ modlist[p][1].op = "MOD_REPLACE"
        /\ attr # attr0[p]

\* C4: after a present-mode invocation outside check mode has completed
\* without error, the server holds every desired value (as the server
\* compares values), and every value it held before is still there.
C4_PresentCorrect ==
    \A p \in Solo :
        pc[p] = "exit" /\ State(p) = "present" /\ ~CheckMode(p) =>
            /\ \A i \in 1..Len(values[p]) : ServerHas(values[p][i])
            /\ attr0[p] \subseteq attr

\* A present-mode invocation has added values to an attribute that had some.
C4_Witness ==
    \E p \in Solo :
        /\ pc[p] = "exit" /\ State(p) = "present" /\ ~CheckMode(p)
        /\ changed[p] /\ attr0[p] # {} /\ attr # attr0[p]

\* C5: after an absent-mode invocation outside check mode has completed
\* without error, the server holds no desired value (as the server compares
\* values), and the values that match no desired value are as they were.
C5_AbsentCorrect ==
    \A p \in Solo :
        pc[p] = "exit" /\ State(p) = "absent" /\ ~CheckMode(p) =>
            /\ \A i \in 1..Len(values[p]) : ~ServerHas(values[p][i])
            /\ attr = {w \in attr0[p] : Norm(w) \notin NormSet(Range(values[p]))}

\* An absent-mode invocation has deleted some values and left others.
C5_Witness ==
    \E p \in Solo :
        /\ pc[p] = "exit" /\ State(p) = "absent" /\ ~CheckMode(p)
        /\ changed[p] /\ attr # {} /\ attr # attr0[p]

Add(vals) == [op |-> "MOD_ADD", vals |-> vals]

DeleteAll == [op |-> "MOD_DELETE", vals |-> <<>>]

Replace(vals) == [op |-> "MOD_REPLACE", vals |-> vals]

\* The invocation has computed its plan.
Planned(p) == pc[p] \in {"modify", "exit"}

\* C6: in exact mode, with C the values fetched and D the desired values, the
\* plan is empty exactly when C and D are equal as sets, whatever their
\* order; otherwise it is the one operation Add(D) when C is empty, else
\* DeleteAll (a delete without a value list) when D is empty, else Replace(D).
C6_ExactPlanTable ==
    \A p \in Solo :
        Planned(p) /\ State(p) = "exact" =>
            LET C  == current[p]
                D  == values[p]
                ml == modlist[p]
            IN  /\ (ml = <<>>) <=> (Range(C) = Range(D))
                /\ Len(ml) <= 1
                /\ ml # <<>> /\ C = <<>> => ml[1] = Add(D)
                /\ ml # <<>> /\ C # <<>> /\ D = <<>> => ml[1] = DeleteAll
                /\ ml # <<>> /\ C # <<>> /\ D # <<>> => ml[1] = Replace(D)

\* Exact mode has fetched the two desired values in the other order and has
\* planned nothing.
C6_Witness ==
    \E p \in Solo :
        /\ Planned(p) /\ State(p) = "exact"
        /\ Len(current[p]) = 2 /\ Len(values[p]) = 2
        /\ current[p] # values[p]
        /\ Range(current[p]) = Range(values[p])
        /\ modlist[p] = <<>>

\* C7: an invocation that reports, reports changed=true exactly when its
\* plan is not empty; and run once in check mode and once outside it, with
\* the same inputs against the same server state, it reports the same
\* changed flag and the same plan.
C7_ChangedIffPlan ==
    \A p \in Solo :
        pc[p] = "exit" =>
            /\ changed[p] <=> (modlist[p] # <<>>)
            /\ /\ prev[p].valid
               /\ prev[p].check_mode # CheckMode(p)
               /\ prev[p].attr0 = attr0[p]
               => /\ changed[p] = prev[p].changed
                  /\ modlist[p] = prev[p].modlist

\* A change reported in check mode has been reported again, and made, by the
\* same task outside check mode.
C7_Witness ==
    \E p \in Solo :
        /\ pc[p] = "exit" /\ ~CheckMode(p)
        /\ prev[p].valid /\ prev[p].check_mode /\ prev[p].attr0 = attr0[p]
        /\ changed[p] /\ attr # attr0[p]

\* C8 as stated: whatever the mode and the desired values, the empty list
\* included, an invocation against an entry that does not exist never
\* reports success.
C8_MissingEntryNeverSucceeds ==
    \A p \in Solo : ~entryExists => pc[p] # "exit"

\* C8, amended: an invocation against an entry that does not exist reports
\* success only in present or absent mode with no desired value, and then it
\* has contacted no directory and reports changed=false with an empty plan;
\* every other invocation with valid input sends at least one request and
\* fails with a directory error: no compare against the missing entry is
\* answered.  No value ever appears on the missing entry.
C8_MissingEntryFails ==
    \A p \in Solo :
        ~entryExists =>
            /\ attr = {}
            /\ pc[p] = "exit" =>
                   /\ State(p) \in {"present", "absent"}
                   /\ values[p] = <<>>
                   /\ calls[p] = <<>>
                   /\ modlist[p] = <<>> /\ ~changed[p]
            /\ pc[p] = "fail" /\ error[p] # "InvalidInput" =>
                   /\ error[p] \in LDAPErrors
                   /\ calls[p] # <<>>
            /\ pc[p] \in {"present", "absent"} => idx[p] = 1

\* A compare against the missing entry has failed the invocation.
C8_Witness ==
    \E p \in Solo :
        /\ ~entryExists
        /\ pc[p] = "fail" /\ error[p] = "NO_SUCH_OBJECT"
        /\ State(p) = "absent"
        /\ CallsOf(p, "compare_s") # <<>>

NoDup(s) == \A i, j \in 1..Len(s) : i # j => s[i] # s[j]

\* C9: the desired values form a set: no plan carries a value twice and no
\* value is compared against the server twice.
C9_DesiredValuesFormASet ==
    \A p \in Solo :
        /\ \A i \in 1..Len(modlist[p]) : NoDup(modlist[p][i].vals)
        /\ NoDup(Compared(p))

\* The values parameter is a string or a list of strings.
StringOrListOfStrings(v) ==
    IF v.islist
    THEN \A i \in 1..Len(v.items) : v.items[i] \in StrObjs \cup UnicodeObjs
    ELSE v.obj \in StrObjs \cup UnicodeObjs

\* C10: a values parameter that is neither a string nor a list of strings
\* fails the invocation with the invalid-input message before any directory
\* call (no connection, no bind, no compare, no search, no modify); the empty
\* string is accepted and gives no desired value.
C10_InputValidation ==
    \A p \in Solo :
        pc[p] # "idle" =>
            /\ ~StringOrListOfStrings(params[p].values) =>
                   /\ pc[p] = "fail" /\ error[p] = "InvalidInput"
                   /\ calls[p] = <<>> /\ connection[p] = None
                   /\ attr = attr0[p]
            /\ StringOrListOfStrings(params[p].values) => error[p] # "InvalidInput"
            /\ params[p].values = Scalar("") => values[p] = <<>>

\* A list with a non-string member has been refused.
C10_Witness ==
    \E p \in Solo :
        /\ pc[p] = "fail" /\ error[p] = "InvalidInput"
        /\ params[p].values = List(<<"a", "int 389">>)

(***************************************************************************)
(* Properties of the session                                               *)
(***************************************************************************)

BindCalls == {"simple_bind_s", "sasl_interactive_bind_s"}

OpCalls == {"compare_s", "search_s", "modify_s"}

\* The binds an invocation has made, in order.
Binds(p) == SelectSeq(calls[p], LAMBDA c : c.call \in BindCalls)

\* C11: a connecting invocation binds exactly once.  With a bind_dn given,
\* the empty string included, the bind is a simple bind with bind_dn and
\* bind_pw and there is no external bind; with bind_dn null it is a SASL
\* EXTERNAL bind without credentials and there is no simple bind.
C11_BindSelection ==
    \A p \in Solo :
        /\ Len(Binds(p)) <= 1
        /\ connection[p] # None => Len(Binds(p)) = 1 /\ Binds(p)[1].res = "OK"
        /\ \A i \in 1..Len(Binds(p)) :
              IF params[p].bind_dn # None
              THEN /\ Binds(p)[i].call = "simple_bind_s"
                   /\ Binds(p)[i].vals = <<params[p].bind_dn, params[p].bind_pw>>
              ELSE /\ Binds(p)[i].call = "sasl_interactive_bind_s"
                   /\ Binds(p)[i].vals = <<"", "EXTERNAL">>

\* An invocation with the empty bind_dn is connected by an anonymous simple
\* bind.
C11_Witness ==
    \E p \in Solo :
        /\ connection[p] # None
        /\ params[p].bind_dn = ""
        /\ Len(Binds(p)) = 1 /\ Binds(p)[1].call = "simple_bind_s"

\* C12: with start_tls set, TLS is negotiated, once, before any bind and
\* before any compare, search or modify; when the negotiation fails the
\* invocation ends there, with no bind and no operation issued; with
\* start_tls not set no negotiation is attempted.
C12_TlsOrdering ==
    \A p \in Solo :
        /\ ~params[p].start_tls => CallsOf(p, "start_tls_s") = <<>>
        /\ Len(CallsOf(p, "start_tls_s")) <= 1
        /\ params[p].start_tls =>
              \A i \in 1..Len(calls[p]) :
                  calls[p][i].call \in BindCalls \cup OpCalls =>
                      \E j \in 1..(i - 1) :
                          /\ calls[p][j].call = "start_tls_s"
                          /\ calls[p][j].res = "OK"
        /\ \A i \in 1..Len(calls[p]) :
              calls[p][i].call = "start_tls_s" /\ calls[p][i].res # "OK" =>
                  /\ i = Len(calls[p])
                  /\ pc[p] = "fail"
                  /\ \A j \in 1..Len(calls[p]) :
                        calls[p][j].call \notin BindCalls \cup OpCalls

\* An invocation has negotiated TLS, bound and modified the attribute.
C12_Witness ==
    \E p \in Solo :
        /\ params[p].start_tls
        /\ pc[p] = "exit"
        /\ CallsOf(p, "modify_s") # <<>>
        /\ calls[p][2].call = "start_tls_s"

\* An invocation has failed in the TLS negotiation.
C12_WitnessTlsFailed ==
    \E p \in Solo :
        /\ pc[p] = "fail" /\ error[p] = "CONNECT_ERROR"
        /\ calls[p][Len(calls[p])].call = "start_tls_s"

(***************************************************************************)
(* Properties of error handling and planning                               *)
(***************************************************************************)

\* The call raised an error other than NO_SUCH_ATTRIBUTE during a compare.
Failed(c) ==
    /\ c.res \notin {"OK", "COMPARE_TRUE", "COMPARE_FALSE"}
    /\ ~(c.call = "compare_s" /\ c.res = "NO_SUCH_ATTRIBUTE")

\* C13: a directory call that fails, other than a compare answering
\* NO_SUCH_ATTRIBUTE, is the last call of its invocation: nothing is sent
\* after it (no modify in particular), it is not repeated, and the
\* invocation ends in a failure carrying that error, not in a report.
C13_FailFast ==
    \A p \in Solo :
        \A i \in 1..Len(calls[p]) :
            Failed(calls[p][i]) =>
                /\ i = Len(calls[p])
                /\ pc[p] = "fail"
                /\ error[p] = calls[p][i].res

\* A compare has failed after another one was answered; the plan is lost.
C13_Witness ==
    \E p \in Solo :
        /\ pc[p] = "fail" /\ error[p] = "SERVER_DOWN"
        /\ Len(CallsOf(p, "compare_s")) = 2
        /\ Failed(calls[p][Len(calls[p])])
        /\ kept[p] # <<>>

\* C14: a compare that raises NO_SUCH_ATTRIBUTE counts as the answer false
\* and fails nothing; so when the entry exists and the attribute has no
\* value, present mode plans the Add of all the desired values and absent
\* mode plans nothing (changed=false).
C14_NoSuchAttributeIsFalse ==
    \A p \in Solo :
        /\ pc[p] = "fail" =>
              ~(/\ calls[p] # <<>>
                /\ calls[p][Len(calls[p])].call = "compare_s"
                /\ calls[p][Len(calls[p])].res = "NO_SUCH_ATTRIBUTE")
        /\ Planned(p) /\ entryExists /\ attr0[p] = {} /\ State(p) = "present" =>
              /\ modlist[p] = IF values[p] = <<>> THEN <<>> ELSE <<Add(values[p])>>
              /\ changed[p] <=> (values[p] # <<>>)
        /\ Planned(p) /\ entryExists /\ attr0[p] = {} /\ State(p) = "absent" =>
              /\ modlist[p] = <<>>
              /\ ~changed[p]
              /\ pc[p] = "exit"

\* Absent mode has reported no change after two compares answered
\* NO_SUCH_ATTRIBUTE.
C14_Witness ==
    \E p \in Solo :
        /\ pc[p] = "exit" /\ State(p) = "absent" /\ entryExists /\ attr0[p] = {}
        /\ Len(CallsOf(p, "compare_s")) = 2
        /\ \A i \in 1..2 : CallsOf(p, "compare_s")[i].res = "NO_SUCH_ATTRIBUTE"

\* Present mode has planned the Add of two values on an attribute without
\* values.
C14_WitnessPresent ==
    \E p \in Solo :
        /\ Planned(p) /\ State(p) = "present" /\ entryExists /\ attr0[p] = {}
        /\ Len(values[p]) = 2 /\ modlist[p] = <<Add(values[p])>>

Delete(vals) == [op |-> "MOD_DELETE", vals |-> vals]

\* The values whose compare gave one of the answers ans, in the order compared.
Answered(p, ans) ==
    LET cs == SelectSeq(CallsOf(p, "compare_s"), LAMBDA c : c.res \in ans)
    IN  [i \in 1..Len(cs) |-> cs[i].vals[1]]

\* C15: in present and absent mode every desired value is compared, in input
\* order, and the plan is the one Add of exactly the values answered false
\* (present) or the one Delete of exactly the values answered true (absent),
\* in input order; it is empty when there is no such value.  No value
\* already in the wanted state is in the plan.
C15_PlanMinimal ==
    \A p \in Solo :
        Planned(p) /\ State(p) \in {"present", "absent"} =>
            LET missing == Answered(p, {"COMPARE_FALSE", "NO_SUCH_ATTRIBUTE"})
                found   == Answered(p, {"COMPARE_TRUE"})
            IN  /\ Compared(p) = values[p]
                /\ State(p) = "present" =>
                      /\ modlist[p] = IF missing = <<>> THEN <<>> ELSE <<Add(missing)>>
                      /\ \A i \in 1..Len(modlist[p]) :
                            NormSet(Range(modlist[p][i].vals)) \cap NormSet(attr0[p]) = {}
                /\ State(p) = "absent" =>
                      /\ modlist[p] = IF found = <<>> THEN <<>> ELSE <<Delete(found)>>
                      /\ \A i \in 1..Len(modlist[p]) :
                            NormSet(Range(modlist[p][i].vals)) \subseteq NormSet(attr0[p])

\* Absent mode has planned the Delete of the one desired value the attribute
\* holds and has left the other one out.
C15_Witness ==
    \E p \in Solo :
        /\ Planned(p) /\ State(p) = "absent"
        /\ Len(values[p]) = 2 /\ Len(modlist[p]) = 1
        /\ modlist[p][1] = Delete(<<values[p][1]>>)

ConnectCalls == {"initialize", "start_tls_s"} \cup BindCalls

\* C16: an invocation opens its connection (initialize, TLS if asked, bind)
\* at most once, only if it has a directory operation to send and before the
\* first one; every compare, search and modify comes after the successful
\* bind of that one connection, and the connection is not opened again
\* between operations.
C16_SessionLifecycle ==
    \A p \in Solo :
        /\ Len(CallsOf(p, "initialize")) <= 1
        /\ Len(Binds(p)) <= 1
        /\ \A i \in 1..Len(calls[p]) :
              /\ calls[p][i].call \in OpCalls =>
                    /\ connection[p] # None
                    /\ \E j \in 1..(i - 1) :
                          calls[p][j].call \in BindCalls /\ calls[p][j].res = "OK"
              /\ calls[p][i].call \in ConnectCalls =>
                    \A j \in 1..(i - 1) : calls[p][j].call \in ConnectCalls
        /\ connection[p] # None =>
              \E j \in 1..Len(calls[p]) :
                  calls[p][j].call \in BindCalls /\ calls[p][j].res = "OK"
        /\ calls[p] # <<>> => State(p) = "exact" \/ values[p] # <<>>
        /\ pc[p] = "exit" /\ calls[p] # <<>> =>
              \E i \in 1..Len(calls[p]) : calls[p][i].call \in OpCalls

\* Two compares and a modify have gone over the one connection of an
\* invocation.
C16_Witness ==
    \E p \in Solo :
        /\ pc[p] = "exit"
        /\ Len(CallsOf(p, "initialize")) = 1 /\ Len(Binds(p)) = 1
        /\ Len(CallsOf(p, "compare_s")) = 2
        /\ Len(CallsOf(p, "modify_s")) = 1

\* The reads that plan the change have all been answered.
ReadsDone(p) ==
    /\ State(p) = "exact" =>
          /\ Len(CallsOf(p, "search_s")) = 1
          /\ CallsOf(p, "search_s")[1].res = "OK"
    /\ State(p) \in {"present", "absent"} =>
          /\ Compared(p) = values[p]
          /\ \A i \in 1..Len(CallsOf(p, "compare_s")) :
                ~Failed(CallsOf(p, "compare_s")[i])

\* C19: in every mode an invocation sends at most one modify request; the
\* request carries exactly one modification; it is sent after all the
\* compares or the search of the invocation have been answered and is the
\* last call of the invocation, so no read follows it; an invocation with an
\* empty plan sends none.
C19_SingleWriteAfterReads ==
    \A p \in Solo :
        /\ Len(CallsOf(p, "modify_s")) <= 1
        /\ \A i \in 1..Len(calls[p]) :
              calls[p][i].call = "modify_s" =>
                  /\ i = Len(calls[p])
                  /\ Len(calls[p][i].mods) = 1
                  /\ calls[p][i].mods = modlist[p]
                  /\ ReadsDone(p)
        /\ Planned(p) /\ modlist[p] = <<>> =>
              pc[p] = "exit" /\ CallsOf(p, "modify_s") = <<>>

\* A modify has been sent after two compares.
C19_Witness ==
    \E p \in Solo :
        /\ pc[p] = "exit"
        /\ Len(CallsOf(p, "compare_s")) = 2
        /\ Len(CallsOf(p, "modify_s")) = 1
        /\ calls[p][Len(calls[p])].call = "modify_s"

\* The invocation has opened its connection.
Opened(p) ==
    \E j \in 1..Len(calls[p]) : calls[p][j].call \in BindCalls /\ calls[p][j].res = "OK"

\* C18 as stated: when the invocation reports, by exit_json or by fail_json,
\* the connection it opened has been released.
C18_ReleasedOnEveryExit ==
    \A p \in Solo :
        pc[p] \in {"exit", "fail"} /\ Opened(p) => connection[p] = None

\* C18, amended: the module never releases its connection.  Once opened it
\* stays bound for the rest of the invocation and is still bound when the
\* invocation reports, on every exit path; it ends only with the process.
C18_ConnectionHeldToExit ==
    \A p \in Solo :
        /\ Opened(p) => connection[p] = "bound"
        /\ \A i \in 1..Len(calls[p]) : calls[p][i].call \in ConnectCalls \cup OpCalls

\* An invocation has failed in its modify request with its connection bound.
C18_Witness ==
    \E p \in Solo :
        /\ pc[p] = "fail" /\ Opened(p) /\ connection[p] = "bound"
        /\ calls[p][Len(calls[p])].call = "modify_s"

\* An invocation has reported a change it made with its connection bound.
C18_WitnessChanged ==
    \E p \in Solo :
        /\ pc[p] = "exit" /\ changed[p] /\ ~CheckMode(p)
        /\ Opened(p) /\ connection[p] = "bound"

\* An invocation has reported in check mode with its connection bound.
C18_WitnessCheckMode ==
    \E p \in Solo :
        /\ pc[p] = "exit" /\ CheckMode(p)
        /\ Opened(p) /\ connection[p] = "bound"

(***************************************************************************)
(* Properties of concurrent invocations (SpecConc)                         *)
(***************************************************************************)

\* Both invocations have reported.
BothDone == \A p \in Inv : pc[p] \in {"exit", "fail"}

\* The errors the surroundings raise: the server or the connection, not the
\* request.
OutsideErrors == {"SERVER_DOWN", "CONNECT_ERROR", "INVALID_CREDENTIALS", "INSUFFICIENT_ACCESS"}

\* The attribute as one applied request left it.
Produced(w) == ApplyMods(w.before, w.mods).attr

\* The last applied request decides the attribute.
LastWriteStands == writes # <<>> => attr = Produced(writes[Len(writes)])

\* C17 as stated: two invocations on an existing entry, their values without
\* repetition, their calls interleaved: both complete without error, unless
\* the surroundings fail, and the attribute is as the modification applied
\* last left it.
C17_BothCompleteLastWriteWins ==
    /\ LastWriteStands
    /\ \A p \in Inv :
          entryExists /\ ~HasDup(values[p]) /\ pc[p] = "fail" =>
              error[p] \in OutsideErrors

\* C17, amended: every request is atomic at the server and the attribute is
\* always as the modification applied last left it; each applied
\* modification is the one plan of an invocation, which then reports it as
\* its change; an invocation whose modification the server refuses
\* fails and changes nothing.  An invocation is refused only for a
\* repeated value or because the other invocation changed the attribute
\* after its reads.
C17_LastWriteWins ==
    /\ LastWriteStands
    /\ \A i \in 1..Len(writes) :
          LET w == writes[i]
          IN  /\ pc[w.inv] = "exit" /\ changed[w.inv]
              /\ w.mods = modlist[w.inv] /\ Len(w.mods) = 1
              /\ \A j \in 1..Len(writes) : writes[j].inv = w.inv => j = i
              /\ i > 1 => w.before = Produced(writes[i - 1])
    /\ \A p \in Inv :
          /\ pc[p] = "fail" => \A i \in 1..Len(writes) : writes[i].inv # p
          /\ pc[p] = "exit" /\ changed[p] =>
                \E i \in 1..Len(writes) : writes[i].inv = p
          /\ entryExists /\ pc[p] = "fail" /\ error[p] \notin OutsideErrors =>
                /\ calls[p][Len(calls[p])].call = "modify_s"
                /\ HasDup(values[p]) \/ attr # attr0[p] \/ writes # <<>>

\* Both invocations have changed the attribute.
C17_Witness ==
    /\ BothDone
    /\ Len(writes) = 2
    /\ writes[1].inv # writes[2].inv
    /\ attr # writes[2].before

\* One invocation has failed because the other one added its value first.
C17_WitnessRefused ==
    /\ BothDone
    /\ \E p \in Inv : pc[p] = "fail" /\ error[p] = "TYPE_OR_VALUE_EXISTS"
    /\ Len(writes) = 1

====
